---- MODULE Spec2Model ----
(***************************************************************************)
(* State-machine model of the interactive threat map of the OSINT          *)
(* dashboard (src/src/App.js, component OSINTDashboard): the React state   *)
(* the map effect depends on, the drawing surface the effect builds with   *)
(* d3 (zoom behaviour, transitions, globe drag, country shapes and pulse   *)
(* markers) and the data refresh.                                          *)
(*                                                                         *)
(* Numbers that are floats in the program (zoom scale, translate, globe    *)
(* rotation) are exact rationals [n, d] in lowest terms with d > 0.        *)
(***************************************************************************)
EXTENDS Integers, Sequences, FiniteSets, TLC

(***************************************************************************)
(* Rational arithmetic                                                     *)
(***************************************************************************)
Abs(i) == IF i < 0 THEN -i ELSE i

RECURSIVE GCD(_, _)
GCD(a, b) == IF b = 0 THEN a ELSE GCD(b, a % b)

\* the element of a one-element set; {e(x) : x \in {a}} makes TLC evaluate
\* the operand a once, however often e uses x
The(S) == CHOOSE x \in S : TRUE

\* n/d in lowest terms; d > 0
Rat(n, d) ==
    The({IF x = 0 THEN [n |-> 0, d |-> 1]
         ELSE The({[n |-> x \div g, d |-> y \div g] : g \in {GCD(Abs(x), y)}})
         : x \in {n}, y \in {d}})

Int2R(i) == [n |-> i, d |-> 1]

RNeg(a) == [n |-> -a.n, d |-> a.d]

RAdd(a, b) ==
    The({The({Rat(x.n * (y.d \div g) + y.n * (x.d \div g), (x.d \div g) * y.d)
              : g \in {GCD(x.d, y.d)}})
         : x \in {a}, y \in {b}})

RSub(a, b) == RAdd(a, RNeg(b))

\* cross-cancelled before multiplying, so that no intermediate is larger
\* than the result
RMul(a, b) ==
    The({IF x.n = 0 \/ y.n = 0 THEN [n |-> 0, d |-> 1]
         ELSE The({[n |-> (IF (x.n < 0) = (y.n < 0) THEN 1 ELSE -1)
                            * ((Abs(x.n) \div g1) * (Abs(y.n) \div g2)),
                    d |-> (x.d \div g2) * (y.d \div g1)]
                   : g1 \in {GCD(Abs(x.n), y.d)}, g2 \in {GCD(Abs(y.n), x.d)}})
         : x \in {a}, y \in {b}})

\* 1/a, a # 0
RInv(a) ==
    The({IF x.n > 0 THEN [n |-> x.d, d |-> x.n] ELSE [n |-> -x.d, d |-> -x.n]
         : x \in {a}})

RDiv(a, b) == RMul(a, RInv(b))

RLt(a, b) == a.n * b.d < b.n * a.d

RLe(a, b) == a.n * b.d <= b.n * a.d

RMin(a, b) == The({IF RLe(x, y) THEN x ELSE y : x \in {a}, y \in {b}})

RMax(a, b) == The({IF RLe(x, y) THEN y ELSE x : x \in {a}, y \in {b}})

Zero == Int2R(0)

One == Int2R(1)

\* integer square root: the largest r with r * r <= m (m >= 0)
RECURSIVE ISqrtFrom(_, _)
ISqrtFrom(m, r) ==
    LET r2 == (r + m \div r) \div 2
    IN  IF r2 >= r THEN r ELSE ISqrtFrom(m, r2)

ISqrt(m) == IF m < 2 THEN m ELSE ISqrtFrom(m, IF m < 46340 THEN m ELSE 46340)

IsSquare(m) == ISqrt(m) * ISqrt(m) = m

\* a >= 0 in lowest terms has a rational square root iff n and d are squares
HasRSqrt(a) == a.n >= 0 /\ IsSquare(a.n) /\ IsSquare(a.d)

RSqrt(a) == [n |-> ISqrt(a.n), d |-> ISqrt(a.d)]

\* JavaScript's x % m for an integer m > 0: the remainder has the sign of x
JsRem(a, m) ==
    LET q == m * a.d
    IN  IF a.n >= 0 THEN Rat(a.n % q, a.d) ELSE Rat(-((-a.n) % q), a.d)

(***************************************************************************)
(* Bounds of the model                                                     *)
(***************************************************************************)
\* commands of the user in one behaviour: pointer gestures, wheel events and
\* button clicks on the map, and changes of the React state (projection,
\* theme, fullscreen, tab, refresh)
MaxLog == 3

\* the number of times the callback of the auto-refresh interval runs
MaxTicks == 4

(***************************************************************************)
(* React state of OSINTDashboard                                           *)
(***************************************************************************)
VARIABLES
    activeTab,        \* useState('map')
    darkMode,         \* useState(true)
    isMapFullscreen,  \* useState(false)
    mapProjection,    \* useState('natural')
    countryData,      \* useState({...}): country name -> record
    isLoading,        \* useState(false)
    refreshTimers,    \* pending setTimeout callbacks of handleRefresh
    selectedCountry,  \* useState(null): the name clicked and which object its
                      \* data is
    autoRefresh,      \* useState(false)
    refreshInterval,  \* useState(60), seconds
    report,           \* what the last click on View Detailed Report has done
    intervals,        \* the setInterval timers of the auto-refresh effect that
                      \* are scheduled
    ticks,            \* callbacks of the auto-refresh setInterval run so far
    env,              \* the browser: window.innerHeight, container clientWidth
    surface,          \* TRUE iff the svg built by the map effect is displayed
    size,             \* width and height attributes of the svg
    zoomT,            \* the zoom transform of the svg (d3-zoom's __zoom),
                      \* which the zoom handler copies to g's transform
    rotation,         \* projection.rotate()
    trans,            \* d3 transitions on the svg node, oldest first
    drag,             \* v0, q0 of the globe drag and whether a drag is on
    world,            \* the d3.json load of this surface
    paths,            \* country shapes in g: feature name -> attributes
    pulses,           \* pulse circles in g: country -> centroid (cx, cy)
    hovered,          \* the shape that got mouseover and no mouseout yet
    stopped,          \* the circles whose animatePulse loop the last run of
                      \* the effect (its clean-up and its clearing of the
                      \* container) interrupted
    loads,            \* d3.json requests started since the map view mounted
    tooltips,         \* the div elements of class tooltip in the body
    tooltipOpacity,   \* the opacity the tooltip of the surface has or is in
                      \* transition to
    pulseAnim,        \* the transition animatePulse has put on the circles
    issued,           \* d3.json requests started since the page was opened
    settledOld,       \* how many of them resolved after their surface had
                      \* been removed
    log               \* the user's commands so far, oldest first

\* the variables that only the actions about them change
sideVars == <<settledOld, refreshInterval, report>>

appVars == <<activeTab, darkMode, isMapFullscreen, mapProjection, countryData,
             isLoading, refreshTimers, env, selectedCountry, autoRefresh, intervals,
             ticks, sideVars>>

surfaceVars == <<surface, size, zoomT, rotation, trans, drag, world, paths, pulses,
                 hovered, stopped, loads, issued, pulseAnim,
                 tooltips, tooltipOpacity>>

vars == <<appVars, surfaceVars, log>>

Tabs == {"map", "incidents", "analytics", "tools"}

ProjectionKinds == {"natural", "mercator", "equirectangular", "robinson",
                    "winkel3", "eckert4", "orthographic"}

\* the tabs and the projections the user picks in the behaviours explored
TabChoices == {"map", "analytics"}

ProjectionChoices == {"natural", "mercator", "orthographic"}

InitialCountryData ==
    [c \in {"United States", "China", "Russia", "Germany", "Brazil"} |->
        CASE c = "United States" ->
               [threats |-> 45, incidents |-> 12, riskLevel |-> "high",
                lastUpdate |-> "2 hours ago", trend |-> "increasing",
                activeThreats |-> <<"DDoS", "Ransomware", "APT">>,
                topTargets |-> <<"Finance", "Healthcare", "Government">>,
                mitigationStatus |-> "In Progress"]
          [] c = "China" ->
               [threats |-> 38, incidents |-> 8, riskLevel |-> "high",
                lastUpdate |-> "4 hours ago", trend |-> "stable",
                activeThreats |-> <<"Espionage", "Data Theft">>,
                topTargets |-> <<"Technology", "Defense">>,
                mitigationStatus |-> "Monitoring"]
          [] c = "Russia" ->
               [threats |-> 42, incidents |-> 15, riskLevel |-> "high",
                lastUpdate |-> "1 hour ago", trend |-> "increasing",
                activeThreats |-> <<"Ransomware", "Supply Chain">>,
                topTargets |-> <<"Infrastructure", "Energy">>,
                mitigationStatus |-> "Critical"]
          [] c = "Germany" ->
               [threats |-> 12, incidents |-> 3, riskLevel |-> "medium",
                lastUpdate |-> "6 hours ago", trend |-> "decreasing",
                activeThreats |-> <<"Phishing">>,
                topTargets |-> <<"Manufacturing">>,
                mitigationStatus |-> "Contained"]
          [] OTHER ->
               [threats |-> 18, incidents |-> 5, riskLevel |-> "medium",
                lastUpdate |-> "3 hours ago", trend |-> "stable",
                activeThreats |-> <<"Banking Trojans">>,
                topTargets |-> <<"Finance", "Retail">>,
                mitigationStatus |-> "Monitoring"]]

\* properties.name of the features of the loaded world atlas that the model
\* keeps: four of the dataset keys, the atlas' name of the United States
\* (which is not the dataset key 'United States') and a country without data
FeatureNames == {"United States of America", "China", "Russia", "Germany",
                 "Brazil", "France"}

\* the browser values the effect reads
ClientWidths == {800}

InnerHeights == {950}

\* the draws of Math.random in one refresh: per country the signed change
\* (change * Math.floor(Math.random() * 5)) added to threats
RefreshDraws ==
    {[c \in DOMAIN InitialCountryData |-> v] : v \in {-4}}
      \cup {[c \in DOMAIN InitialCountryData |-> IF c = "China" THEN -3 ELSE 2]}

(***************************************************************************)
(* The zoom transform (d3.zoom) of the surface                             *)
(***************************************************************************)
Pt(x, y) == [x |-> x, y |-> y]

\* d3.zoomIdentity
zoomIdentity == [k |-> One, x |-> Zero, y |-> Zero]

\* a d3.zoomIdentity.scale(k) that would ignore k
zoomIdentityScale_ignoresK(k) == zoomIdentity

\* d3.zoomIdentity.scale(k)
zoomIdentityScale(k) == [k |-> RMul(One, k), x |-> Zero, y |-> Zero]

\* const minZoom = mapProjection === 'orthographic' ? 0.8 : 0.5
minZoom(proj) == IF proj = "orthographic" THEN Rat(4, 5) ELSE Rat(1, 2)

\* .scaleExtent([minZoom, 8])
scaleExtent(proj) == <<minZoom(proj), Int2R(8)>>

\* a scale(transform, k) that would take any k
scale_unclamped(t, k, proj) == [t EXCEPT !.k = k]

\* d3-zoom's scale(transform, k): k clamped to the scale extent
scale(t, k, proj) ==
    [t EXCEPT !.k = RMax(scaleExtent(proj)[1], RMin(scaleExtent(proj)[2], k))]

\* transform.invert(p)
invert(t, p) ==
    The({Pt(RDiv(RSub(q.x, s.x), s.k), RDiv(RSub(q.y, s.y), s.k))
         : s \in {t}, q \in {p}})

\* d3-zoom's translate(transform, p0, p1): the point p1 of the map is shown
\* at the screen point p0
translate(t, p0, p1) ==
    The({[s EXCEPT !.x = RSub(q0.x, RMul(q1.x, s.k)),
                   !.y = RSub(q0.y, RMul(q1.y, s.k))]
         : s \in {t}, q0 \in {p0}, q1 \in {p1}})

\* the default extent of the zoom behaviour, [[0, 0], [width, height]], as
\* its centre and its larger side
centroid(sz) == Pt(Rat(sz.width, 2), Rat(sz.height, 2))

extentW(sz) == Int2R(IF sz.width >= sz.height THEN sz.width ELSE sz.height)

\* zoom.scaleBy(selection, k) about the centre of the extent: what
\* zoom.scaleTo's transform function returns for the current transform t
scaleBy(t, f, sz, proj) ==
    translate(scale(t, RMul(t.k, f), proj), centroid(sz), invert(t, centroid(sz)))

(***************************************************************************)
(* The map effect: building the surface                                    *)
(***************************************************************************)
Min(a, b) == IF a <= b THEN a ELSE b

Max(a, b) == IF a >= b THEN a ELSE b

\* a viewport whose height would not be kept between 700 and 900
viewport_unclamped(e, fullscreen) ==
    [width  |-> e.clientWidth,
     height |-> IF fullscreen THEN e.innerHeight - 100 ELSE e.innerHeight - 250]

\* const width = ...clientWidth; const height = isMapFullscreen ? ... : ...
viewport(e, fullscreen) ==
    [width  |-> e.clientWidth,
     height |-> IF fullscreen THEN e.innerHeight - 100
                ELSE Min(900, Max(700, e.innerHeight - 250))]

NoSize == [width |-> 0, height |-> 0]

NoRotation == <<Zero, Zero, Zero>>

NoDrag == [active |-> FALSE, v0 |-> <<0, 0>>, v1 |-> <<0, 0>>, q0 |-> NoRotation]

NoShapes == [c \in {} |-> 0]

\* d3.select("body").selectAll(".tooltip").remove() and
\* d3.select(d3Container.current).selectAll("*").remove() interrupt no
\* transition: d3 keeps the timers of the transitions of removed nodes, and
\* on("end", animatePulse) goes on rescheduling them
NoLoops == {}

\* function animatePulse(): the circles are put back to r 5 and opacity 0.8
\* and get a transition of 2000 ms to r 20 and opacity 0, whose end calls
\* animatePulse again; beat tells a cycle from the next one
animatePulse(beat) ==
    [running |-> TRUE, beat |-> beat, r |-> <<5, 20>>,
     opacity |-> <<Rat(4, 5), Zero>>, duration |-> 2000]

\* no circle has a transition
NoAnim ==
    [running |-> FALSE, beat |-> 0, r |-> <<5, 5>>,
     opacity |-> <<Rat(4, 5), Rat(4, 5)>>, duration |-> 0]

\* no shape is under the pointer
NoShape == "none"

\* selectedCountry is null
null == [name |-> "null", data |-> "null"]

\* path.centroid(feature) and the d attribute path(feature): the projection
\* of a country's geometry by the projection of kind proj rotated by rot.
\* The value is kept symbolic: two of them are equal iff they were computed
\* for the same country under the same projection and rotation.
projected(proj, rot, name) == [projection |-> proj, rotate |-> rot, of |-> name]

\* A map effect that would carry the view of the old svg over to the new one
MapEffect_keepsView(tab, fullscreen) ==
    /\ surface' = (tab = "map")
    /\ size' = IF tab = "map" THEN viewport(env, fullscreen) ELSE NoSize
    /\ zoomT' = zoomT
    /\ rotation' = rotation
    /\ trans' = <<>>
    /\ drag' = NoDrag
    /\ world' = IF tab = "map" THEN "pending" ELSE "none"
    /\ paths' = NoShapes
    /\ pulses' = NoShapes
    /\ hovered' = NoShape
    /\ stopped' = NoLoops
    /\ loads' = IF tab # "map" THEN 0 ELSE IF activeTab = "map" THEN loads + 1 ELSE 1
    /\ issued' = IF tab = "map" THEN issued + 1 ELSE issued
    /\ pulseAnim' = NoAnim
    /\ tooltips' = (IF activeTab = "map" THEN 0 ELSE tooltips)
                     + (IF tab = "map" THEN 1 ELSE 0)
    /\ tooltipOpacity' = Zero

\* A map effect that would return no clean-up
MapEffect_noCleanup(tab, fullscreen) ==
    /\ surface' = (tab = "map")
    /\ size' = IF tab = "map" THEN viewport(env, fullscreen) ELSE NoSize
    /\ zoomT' = zoomIdentity
    /\ rotation' = NoRotation
    /\ trans' = <<>>
    /\ drag' = NoDrag
    /\ world' = IF tab = "map" THEN "pending" ELSE "none"
    /\ paths' = NoShapes
    /\ pulses' = NoShapes
    /\ hovered' = NoShape
    /\ stopped' = NoLoops
    /\ loads' = IF tab # "map" THEN 0 ELSE IF activeTab = "map" THEN loads + 1 ELSE 1
    /\ issued' = IF tab = "map" THEN issued + 1 ELSE issued
    /\ pulseAnim' = NoAnim
    /\ tooltips' = tooltips + (IF tab = "map" THEN 1 ELSE 0)
    /\ tooltipOpacity' = Zero

\* One run of the map effect for the React state given: its early return
\* when the tab is not the map (the container is then unmounted), else a
\* new svg with a new g, projection, zoom behaviour and pending load.
MapEffect(tab, fullscreen) ==
    /\ surface' = (tab = "map")
    /\ size' = IF tab = "map" THEN viewport(env, fullscreen) ELSE NoSize
    /\ zoomT' = zoomIdentity
    /\ rotation' = NoRotation
    /\ trans' = <<>>
    /\ drag' = NoDrag
    /\ world' = IF tab = "map" THEN "pending" ELSE "none"
    /\ paths' = NoShapes
    /\ pulses' = NoShapes
    /\ hovered' = NoShape
    /\ stopped' = NoLoops
    /\ loads' = IF tab # "map" THEN 0 ELSE IF activeTab = "map" THEN loads + 1 ELSE 1
    /\ issued' = IF tab = "map" THEN issued + 1 ELSE issued
    /\ pulseAnim' = NoAnim
    /\ tooltips' = (IF activeTab = "map" THEN 0 ELSE tooltips)
                     + (IF tab = "map" THEN 1 ELSE 0)
    /\ tooltipOpacity' = Zero

\* the state after the first render of OSINTDashboard in the browser e and
\* the first run of the map effect
Mounted(e) ==
    /\ activeTab = "map"
    /\ darkMode = TRUE
    /\ isMapFullscreen = FALSE
    /\ mapProjection = "natural"
    /\ countryData = InitialCountryData
    /\ isLoading = FALSE
    /\ refreshTimers = 0
    /\ env = e
    /\ surface = TRUE
    /\ size = viewport(env, FALSE)
    /\ zoomT = zoomIdentity
    /\ rotation = NoRotation
    /\ trans = <<>>
    /\ drag = NoDrag
    /\ world = "pending"
    /\ paths = NoShapes
    /\ pulses = NoShapes
    /\ hovered = NoShape
    /\ stopped = NoLoops
    /\ loads = 1
    /\ issued = 1
    /\ pulseAnim = NoAnim
    /\ tooltips = 1
    /\ tooltipOpacity = Zero
    /\ settledOld = 0
    /\ selectedCountry = null
    /\ autoRefresh = FALSE
    /\ refreshInterval = 60
    /\ report = "none"
    /\ intervals = 0
    /\ ticks = 0
    /\ log = <<>>

Init == \E e \in [clientWidth : ClientWidths, innerHeight : InnerHeights] : Mounted(e)

(***************************************************************************)
(* React state changes; each one re-renders and re-runs the map effect     *)
(***************************************************************************)
AppEvent(name) ==
    /\ Len(log) < MaxLog
    /\ log' = Append(log, name)

\* onChange={(e) => setMapProjection(e.target.value)}
setMapProjection(p) ==
    /\ activeTab = "map"
    /\ p # mapProjection
    /\ AppEvent("setMapProjection")
    /\ mapProjection' = p
    /\ MapEffect(activeTab, isMapFullscreen)
    /\ UNCHANGED <<activeTab, darkMode, isMapFullscreen, countryData, isLoading,
                   refreshTimers, env,
                   selectedCountry, autoRefresh, intervals, ticks, sideVars>>

\* the theme button and Ctrl+D: setDarkMode(!darkMode)
setDarkMode ==
    /\ AppEvent("setDarkMode")
    /\ darkMode' = ~darkMode
    /\ MapEffect(activeTab, isMapFullscreen)
    /\ UNCHANGED <<activeTab, isMapFullscreen, mapProjection, countryData,
                   isLoading, refreshTimers, env,
                   selectedCountry, autoRefresh, intervals, ticks, sideVars>>

\* the fullscreen button of the map tab and Ctrl+F (only on the map tab):
\* setIsMapFullscreen(!isMapFullscreen)
setIsMapFullscreen ==
    /\ activeTab = "map"
    /\ AppEvent("setIsMapFullscreen")
    /\ isMapFullscreen' = ~isMapFullscreen
    /\ MapEffect(activeTab, ~isMapFullscreen)
    /\ UNCHANGED <<activeTab, darkMode, mapProjection, countryData, isLoading,
                   refreshTimers, env,
                   selectedCountry, autoRefresh, intervals, ticks, sideVars>>

\* handleKeyPress, Escape while fullscreen
escapeKey ==
    /\ isMapFullscreen
    /\ AppEvent("escapeKey")
    /\ isMapFullscreen' = FALSE
    /\ MapEffect(activeTab, FALSE)
    /\ UNCHANGED <<activeTab, darkMode, mapProjection, countryData, isLoading,
                   refreshTimers, env,
                   selectedCountry, autoRefresh, intervals, ticks, sideVars>>

\* the tab buttons and Ctrl+1..4: setActiveTab(tab)
setActiveTab(t) ==
    /\ t # activeTab
    /\ AppEvent("setActiveTab")
    /\ activeTab' = t
    /\ MapEffect(t, isMapFullscreen)
    /\ UNCHANGED <<darkMode, isMapFullscreen, mapProjection, countryData,
                   isLoading, refreshTimers, env,
                   selectedCountry, autoRefresh, intervals, ticks, sideVars>>

\* an auto-refresh effect without its clean-up
AutoRefreshEffect_noCleanup(on) ==
    intervals' = intervals + (IF on THEN 1 ELSE 0)

\* One run of the auto-refresh effect, after a render in which autoRefresh,
\* refreshInterval or handleRefresh (and so countryData) has changed: the
\* clean-up of the run before, which exists when that run has set an
\* interval, clears it; then a new interval is set when autoRefresh is on
AutoRefreshEffect(on) ==
    intervals' = (intervals - (IF autoRefresh THEN 1 ELSE 0))
                   + (IF on THEN 1 ELSE 0)

\* handleRefresh up to its setTimeout: the refresh button (disabled while
\* isLoading) and Ctrl+R
handleRefresh(byButton) ==
    /\ byButton => ~isLoading
    /\ AppEvent("handleRefresh")
    /\ isLoading' = TRUE
    /\ refreshTimers' = refreshTimers + 1
    /\ UNCHANGED <<activeTab, darkMode, isMapFullscreen, mapProjection,
                   countryData, env, selectedCountry, autoRefresh, intervals, ticks,
                   sideVars, surfaceVars>>

\* a refresh that would also lower the risk level of every country
refreshTimeout_lowersRisk(draw) ==
    /\ refreshTimers > 0
    /\ refreshTimers' = refreshTimers - 1
    /\ countryData' = [c \in DOMAIN countryData |->
                         [countryData[c] EXCEPT !.threats = @ + draw[c],
                                                !.lastUpdate = "Just now",
                                                !.riskLevel = "medium"]]
    /\ isLoading' = FALSE
    /\ MapEffect(activeTab, isMapFullscreen)
    /\ AutoRefreshEffect(autoRefresh)
    /\ UNCHANGED <<activeTab, darkMode, isMapFullscreen, mapProjection, env,
                   selectedCountry, autoRefresh, ticks, sideVars, log>>

\* the setTimeout callback of handleRefresh, 1500 ms later
refreshTimeout(draw) ==
    /\ refreshTimers > 0
    /\ refreshTimers' = refreshTimers - 1
    /\ countryData' = [c \in DOMAIN countryData |->
                         [countryData[c] EXCEPT !.threats = @ + draw[c],
                                                !.lastUpdate = "Just now"]]
    /\ isLoading' = FALSE
    /\ MapEffect(activeTab, isMapFullscreen)
    /\ AutoRefreshEffect(autoRefresh)
    /\ UNCHANGED <<activeTab, darkMode, isMapFullscreen, mapProjection, env,
                   selectedCountry, autoRefresh, ticks, sideVars, log>>

\* the Auto-refresh switch of the map toolbar: setAutoRefresh(!autoRefresh);
\* its effect sets the interval up, or its clean-up clears it
setAutoRefresh ==
    /\ activeTab = "map"
    /\ AppEvent("setAutoRefresh")
    /\ autoRefresh' = ~autoRefresh
    /\ AutoRefreshEffect(~autoRefresh)
    /\ UNCHANGED <<activeTab, darkMode, isMapFullscreen, mapProjection,
                   countryData, isLoading, refreshTimers, env, selectedCountry,
                   ticks, sideVars, surfaceVars>>

\* the values typed into the Auto-refresh Interval field
RefreshIntervalChoices == {30, 60}

\* onChange={(e) => setRefreshInterval(parseInt(e.target.value))}
setRefreshInterval(n) ==
    /\ n # refreshInterval
    /\ AppEvent("setRefreshInterval")
    /\ refreshInterval' = n
    /\ AutoRefreshEffect(autoRefresh)
    /\ UNCHANGED <<activeTab, darkMode, isMapFullscreen, mapProjection,
                   countryData, isLoading, refreshTimers, env, selectedCountry,
                   autoRefresh, ticks, settledOld, report, surfaceVars>>

\* the callback of setInterval, every refreshInterval seconds while
\* autoRefresh is on: handleRefresh() up to its setTimeout
autoRefreshTick ==
    /\ intervals > 0
    /\ ticks < MaxTicks
    /\ ticks' = ticks + 1
    /\ isLoading' = TRUE
    /\ refreshTimers' = refreshTimers + 1
    /\ UNCHANGED <<activeTab, darkMode, isMapFullscreen, mapProjection,
                   countryData, env, selectedCountry, autoRefresh, intervals,
                   sideVars, surfaceVars, log>>

(***************************************************************************)
(* The geometry load of the surface                                        *)
(***************************************************************************)
\* a fill that would use the neutral colour of the dark theme in both themes
fill_ignoresTheme(name) ==
    IF name \in DOMAIN countryData
    THEN IF countryData[name].riskLevel = "high" THEN "#ef4444"
         ELSE IF countryData[name].riskLevel = "medium" THEN "#f59e0b"
         ELSE "#10b981"
    ELSE "#374151"

\* the fill of a country shape
fill(name) ==
    IF name \in DOMAIN countryData
    THEN IF countryData[name].riskLevel = "high" THEN "#ef4444"
         ELSE IF countryData[name].riskLevel = "medium" THEN "#f59e0b"
         ELSE "#10b981"
    ELSE IF darkMode THEN "#374151" ELSE "#e5e7eb"

\* .attr("stroke", darkMode ? "#1f2937" : "#d1d5db")
neutralStroke == IF darkMode THEN "#1f2937" ELSE "#d1d5db"

\* a pulseData that would keep the high-risk entries without a feature
pulseData_anyHighRisk ==
    {c \in DOMAIN countryData : countryData[c].riskLevel = "high"}

\* const pulseData = Object.entries(countryData).filter(...).map(...).filter(Boolean)
pulseData ==
    {c \in DOMAIN countryData :
        countryData[c].riskLevel = "high" /\ c \in FeatureNames}

\* d3.json(...).then((world) => {...}) of the displayed surface
loadResolved ==
    /\ surface
    /\ world = "pending"
    /\ world' = "loaded"
    /\ paths' = [f \in FeatureNames |->
                    [d |-> projected(mapProjection, rotation, f), fill |-> fill(f),
                         stroke |-> neutralStroke, strokeWidth |-> Rat(1, 2)]]
    /\ pulses' = [c \in pulseData |-> projected(mapProjection, rotation, c)]
    /\ pulseAnim' = IF pulseData = {} THEN NoAnim ELSE animatePulse(0)
    /\ UNCHANGED <<appVars, hovered, stopped, loads, issued, tooltips, tooltipOpacity, surface, size, zoomT, rotation, trans, drag,
                   log>>

\* the promise of d3.json of the displayed surface is rejected (the request
\* or the parsing of its body failed): there is no catch, nothing runs
loadRejected ==
    /\ surface
    /\ world = "pending"
    /\ world' = "failed"
    /\ UNCHANGED <<appVars, hovered, stopped, loads, issued, pulseAnim, tooltips, tooltipOpacity, surface, size, zoomT, rotation, trans, drag,
                   paths, pulses, log>>

\* an animatePulse whose transition would not call it again at its end
pulseCycleEnd_once ==
    /\ surface
    /\ pulseAnim.running
    /\ pulseAnim' = [pulseAnim EXCEPT !.running = FALSE]
    /\ UNCHANGED <<appVars, hovered, stopped, loads, issued, tooltips, tooltipOpacity, surface, size, zoomT, rotation,
                   trans, drag, world, paths, pulses, log>>

\* .on("end", animatePulse): the transition of the circles of the displayed
\* surface has run its 2000 ms, and its end starts the next cycle
pulseCycleEnd ==
    /\ surface
    /\ pulseAnim.running
    /\ pulseAnim' = animatePulse(1 - pulseAnim.beat)
    /\ UNCHANGED <<appVars, hovered, stopped, loads, issued, tooltips, tooltipOpacity, surface, size, zoomT, rotation,
                   trans, drag, world, paths, pulses, log>>

\* a then-callback that would draw into the surface displayed
staleLoadResolved_drawsDisplayed ==
    /\ settledOld < issued - (IF surface THEN 1 ELSE 0)
    /\ settledOld' = settledOld + 1
    /\ paths' = IF surface
                THEN [f \in FeatureNames |->
                        [d |-> projected(mapProjection, rotation, f), fill |-> fill(f),
                         stroke |-> neutralStroke, strokeWidth |-> Rat(1, 2)]]
                ELSE paths
    /\ pulses' = IF surface
                 THEN [c \in pulseData |-> projected(mapProjection, rotation, c)]
                 ELSE pulses
    /\ UNCHANGED <<activeTab, darkMode, isMapFullscreen, mapProjection, countryData,
                   isLoading, refreshTimers, env, selectedCountry, autoRefresh, intervals, ticks,
                   refreshInterval, report, hovered, stopped, loads, issued, pulseAnim, tooltips, tooltipOpacity, surface, size, zoomT, rotation, trans,
                   drag, world, log>>

\* d3.json(...).then((world) => {...}) of a surface that a later run of the
\* effect has removed: the callback appends the shapes and the circles to
\* the g of its own run, which is no longer in the document, and starts
\* animatePulse on these circles.  The requests are not told apart: as many
\* of them can resolve here as were started before the one of the surface
\* displayed.
staleLoadResolved ==
    /\ settledOld < issued - (IF surface THEN 1 ELSE 0)
    /\ settledOld' = settledOld + 1
    /\ UNCHANGED <<activeTab, darkMode, isMapFullscreen, mapProjection, countryData,
                   isLoading, refreshTimers, env, selectedCountry, autoRefresh, intervals, ticks,
                   refreshInterval, report, surfaceVars, log>>

(***************************************************************************)
(* Transitions on the svg (d3-transition driving d3-zoom)                  *)
(***************************************************************************)
\* a tween whose double click would aim at the transform the svg has
target_dblclickStays(kind, t) ==
    CASE kind = "zoomIn"      -> scaleBy(t, Rat(13, 10), size, mapProjection)
      [] kind = "zoomOut"     -> scaleBy(t, Rat(7, 10), size, mapProjection)
      [] kind = "resetZoom"   -> zoomIdentity
      [] kind = "dblclick"    -> t
      [] kind = "fitToWindow" -> zoomIdentityScale(Rat(9, 10))

\* svg.transition()...call(zoom.scaleBy, k) or .call(zoom.transform, t): the
\* transform the zoom tween computes, when the transition starts, from the
\* transform t the svg has then
target(kind, t) ==
    CASE kind = "zoomIn"      -> scaleBy(t, Rat(13, 10), size, mapProjection)
      [] kind = "zoomOut"     -> scaleBy(t, Rat(7, 10), size, mapProjection)
      [] kind = "resetZoom"   -> zoomIdentity
      [] kind = "dblclick"    -> zoomIdentity
      [] kind = "fitToWindow" -> zoomIdentityScale(Rat(9, 10))

scheduled(kind) ==
    [kind |-> kind, state |-> "scheduled", a |-> zoomIdentity, b |-> zoomIdentity]

\* d3's interrupt(svg): every transition of the node is stopped where it is
interrupt == <<>>

\* The mousedown that begins every click and pan on the svg reaches d3-zoom's
\* mousedown listener, which interrupts the transitions of the svg; on the
\* globe the drag behaviour, registered first, stops the event before that.
pointerDown == IF mapProjection = "orthographic" THEN trans ELSE interrupt

Cmd(name) ==
    /\ surface
    /\ ~drag.active
    /\ Len(log) < MaxLog
    /\ log' = Append(log, name)

\* a click on a control, on("click", () => svg.transition()....call(...)),
\* or a double click on the svg
click(kind) ==
    /\ trans' = Append(pointerDown, scheduled(kind))
    /\ UNCHANGED <<appVars, hovered, stopped, loads, issued, pulseAnim, tooltips, tooltipOpacity, surface, size, zoomT, rotation, drag, world, paths, pulses>>

\* controls.append("g").attr("class", "zoom-in") ... .on("click", ...)
zoomIn ==
    /\ Cmd("zoomIn")
    /\ click("zoomIn")

\* controls.append("g").attr("class", "zoom-out") ... .on("click", ...)
zoomOut ==
    /\ Cmd("zoomOut")
    /\ click("zoomOut")

\* controls.append("g").attr("class", "zoom-reset") ... .on("click", ...)
resetZoom ==
    /\ Cmd("resetZoom")
    /\ click("resetZoom")

\* svg.on("dblclick.zoom", ...), which replaces d3-zoom's own listener
dblclick ==
    /\ Cmd("dblclick")
    /\ click("dblclick")

\* controls.append("g").attr("class", "fit-to-window") ... .on("click", ...)
fitToWindow ==
    /\ Cmd("fitToWindow")
    /\ click("fitToWindow")

IsScheduled(i) == trans[i].state = "scheduled"

HasScheduled == \E i \in 1..Len(trans) : IsScheduled(i)

IsRunning == Len(trans) > 0 /\ trans[1].state = "running"

\* A scheduled transition starts (on the next timer tick): the transition
\* running on the node is interrupted, and the tween reads the transform the
\* svg has now and computes its target from it.
transitionStart ==
    /\ surface
    /\ HasScheduled
    /\ LET i == CHOOSE j \in 1..Len(trans) :
                   IsScheduled(j) /\ \A h \in 1..(j - 1) : ~IsScheduled(h)
       IN  trans' = <<[kind |-> trans[i].kind, state |-> "running", a |-> zoomT,
                       b |-> target(trans[i].kind, zoomT)]>>
                    \o SubSeq(trans, i + 1, Len(trans))
    /\ UNCHANGED <<appVars, hovered, stopped, loads, issued, pulseAnim, tooltips, tooltipOpacity, surface, size, zoomT, rotation, drag, world, paths,
                   pulses, log>>

\* d3.interpolateZoom between two views with the same centre: the width of
\* the view goes monotonically from the one to the other, so every scale
\* between a.k and b.k is shown; the frame kept is the one two thirds of the
\* way.
sameCentreFrame(a, b, sz) ==
    LET kf == RAdd(a.k, RMul(RSub(b.k, a.k), Rat(2, 3)))
    IN  translate([a EXCEPT !.k = kf], centroid(sz), invert(a, centroid(sz)))

\* the products of these operands stay within TLC's integers
Fits(i, j) == i = 0 \/ j <= 1000000000 \div i

CanMul(a, b) == Fits(Abs(a.n), Abs(b.n)) /\ Fits(a.d, b.d)

CanAdd(a, b) == Fits(Abs(a.n), b.d) /\ Fits(Abs(b.n), a.d) /\ Fits(a.d, b.d)

\* d3.interpolateZoom between two views with different centres (van Wijk and
\* Nuij): with d the distance of the centres and w0, w1 the widths of the
\* views, b0 = (w1^2 - w0^2 + 4 d^2) / (4 w0 d), b1 = (w1^2 - w0^2 - 4 d^2) /
\* (4 w1 d), r0 = -asinh(b0), r1 = -asinh(b1), the width along the path is
\* w0 cosh(r0) / cosh(r) for r from r0 to r1.  When r0 < 0 < r1 the path
\* passes r = 0, where the view is widest: width w0 cosh(r0) = w0 sqrt(1 +
\* b0^2), centre at the fraction w0 b0 / (2 d) of the way.  Lengths are in
\* units of the extent's larger side.  The frame is kept when its scale is
\* rational and the arithmetic fits.
widestFrame(a, b, sz) ==
    LET p  == centroid(sz)
        c0 == invert(a, p)
        c1 == invert(b, p)
        dx == RDiv(RSub(c1.x, c0.x), extentW(sz))
        dy == RDiv(RSub(c1.y, c0.y), extentW(sz))
        w0 == RInv(a.k)
        w1 == RInv(b.k)
    IN  IF ~(CanMul(dx, dx) /\ CanMul(dy, dy) /\ CanMul(w0, w0) /\ CanMul(w1, w1))
        THEN {}
        ELSE
        LET dx2 == RMul(dx, dx)
            dy2 == RMul(dy, dy)
            w02 == RMul(w0, w0)
            w12 == RMul(w1, w1)
        IN  IF ~(CanAdd(dx2, dy2) /\ CanAdd(w12, w02)) THEN {}
            ELSE
            LET d2 == RAdd(dx2, dy2)
                dw == RSub(w12, w02)
            IN  IF ~(d2.n > 0 /\ CanMul(Int2R(16), d2) /\ CanAdd(dw, RMul(Int2R(4), d2)))
                THEN {}
                ELSE
                LET n0 == RAdd(dw, RMul(Int2R(4), d2))
                    n1 == RSub(dw, RMul(Int2R(4), d2))
                    m0 == RMul(Int2R(16), d2)
                IN  IF ~(n0.n > 0 /\ n1.n < 0 /\ CanMul(n0, n0) /\ CanMul(w02, m0))
                    THEN {}
                    ELSE
                    LET n02 == RMul(n0, n0)
                        m1  == RInv(RMul(w02, m0))
                    IN  IF ~CanMul(n02, m1) THEN {}
                        ELSE
                        LET b0sq == RMul(n02, m1)
                        IN  IF ~(CanAdd(One, b0sq) /\ HasRSqrt(RAdd(One, b0sq)))
                            THEN {}
                            ELSE
                            LET kf == RDiv(a.k, RSqrt(RAdd(One, b0sq)))
                                u  == RDiv(n0, RMul(Int2R(8), d2))
                                c  == Pt(RAdd(c0.x, RMul(u, RSub(c1.x, c0.x))),
                                         RAdd(c0.y, RMul(u, RSub(c1.y, c0.y))))
                            IN  {translate([a EXCEPT !.k = kf], p, c)}

\* the transforms an intermediate frame of the zoom tween from a to b can
\* write to the svg, as far as the model represents them exactly
frames(a, b, sz) ==
    IF a = b THEN {a}
    ELSE IF invert(a, centroid(sz)) = invert(b, centroid(sz))
         THEN {sameCentreFrame(a, b, sz)}
         ELSE {a} \cup widestFrame(a, b, sz)

\* a frame of the running transition: g.zoom(null, t) in the tween, then the
\* zoom handler g.attr("transform", event.transform)
transitionFrame ==
    /\ surface
    /\ IsRunning
    /\ ~HasScheduled
    /\ \E t \in frames(trans[1].a, trans[1].b, size) : zoomT' = t
    /\ UNCHANGED <<appVars, hovered, stopped, loads, issued, pulseAnim, tooltips, tooltipOpacity, surface, size, rotation, trans, drag, world, paths,
                   pulses, log>>

\* a last frame that would also turn the globe back
transitionEnd_resetsRotation ==
    /\ surface
    /\ IsRunning
    /\ ~HasScheduled
    /\ zoomT' = trans[1].b
    /\ rotation' = IF trans[1].kind \in {"resetZoom", "dblclick"}
                   THEN NoRotation ELSE rotation
    /\ trans' = Tail(trans)
    /\ UNCHANGED <<appVars, hovered, stopped, loads, issued, pulseAnim, tooltips, tooltipOpacity, surface, size, drag, world, paths, pulses, log>>

\* the last frame of the running transition (t = 1): the target exactly
transitionEnd ==
    /\ surface
    /\ IsRunning
    /\ ~HasScheduled
    /\ zoomT' = trans[1].b
    /\ trans' = Tail(trans)
    /\ UNCHANGED <<appVars, hovered, stopped, loads, issued, pulseAnim, tooltips, tooltipOpacity, surface, size, rotation, drag, world, paths, pulses,
                   log>>

(***************************************************************************)
(* Wheel zoom and mouse pan (d3-zoom's own listeners)                      *)
(***************************************************************************)
\* deltaY of the wheel events (pixel mode, no ctrl key)
WheelDeltaYs == {-1000, 500}

\* pointer positions of the wheel events, in svg coordinates
WheelPoints == {<<0, 0>>}

\* movement of the pointer between mousedown and mouseup of a pan
PanDeltas == {<<1500, 0>>}

\* Math.pow(2, -event.deltaY * 0.002), for the deltaY that make it rational
wheelFactor(deltaY) ==
    LET e == (-deltaY * 2) \div 1000
    IN  IF e >= 0 THEN Int2R(2 ^ e) ELSE Rat(1, 2 ^ (-e))

\* d3-zoom's wheeled: ignored when the clamped scale is the current one
wheeled(deltaY, pt) ==
    LET p == Pt(Int2R(pt[1]), Int2R(pt[2]))
        t == scale(zoomT, RMul(zoomT.k, wheelFactor(deltaY)), mapProjection)
    IN  /\ Cmd("wheeled")
        /\ t.k # zoomT.k
        /\ trans' = interrupt
        /\ zoomT' = translate(t, p, invert(zoomT, p))
        /\ UNCHANGED <<appVars, hovered, stopped, loads, issued, pulseAnim, tooltips, tooltipOpacity, surface, size, rotation, drag, world, paths, pulses>>

\* d3-zoom's mousedowned / mousemoved / mouseupped: a pan by delta.  On the
\* globe the drag behaviour takes the mousedown, so there is no pan.
panned(delta) ==
    /\ Cmd("panned")
    /\ mapProjection # "orthographic"
    /\ trans' = interrupt
    /\ zoomT' = [zoomT EXCEPT !.x = RAdd(@, Int2R(delta[1])),
                              !.y = RAdd(@, Int2R(delta[2]))]
    /\ UNCHANGED <<appVars, hovered, stopped, loads, issued, pulseAnim, tooltips, tooltipOpacity, surface, size, rotation, drag, world, paths, pulses>>

(***************************************************************************)
(* Rotating the globe (d3.drag on the svg, orthographic only)              *)
(***************************************************************************)
\* what d3.pointer(event) returns in dragstarted and in dragged
DragStartPoints == {<<400, 350>>}

DragPoints == {<<600, 150>>, <<1200, 450>>}

\* projection.rotate([lambda, phi]): the angles are stored modulo 360 (with
\* the sign of the angle) and gamma is 0
rotate(r) == <<JsRem(r[1], 360), JsRem(r[2], 360), Zero>>

\* a drag behaviour that would be registered under every projection
dragstarted_anyProjection(v) ==
    /\ Cmd("dragstarted")
    /\ drag' = [active |-> TRUE, v0 |-> v, v1 |-> v, q0 |-> rotation]
    /\ UNCHANGED <<appVars, hovered, stopped, loads, issued, pulseAnim, tooltips, tooltipOpacity, surface, size, zoomT, rotation, trans, world, paths, pulses>>

\* function dragstarted(event)
dragstarted(v) ==
    /\ Cmd("dragstarted")
    /\ mapProjection = "orthographic"
    /\ drag' = [active |-> TRUE, v0 |-> v, v1 |-> v, q0 |-> rotation]
    /\ UNCHANGED <<appVars, hovered, stopped, loads, issued, pulseAnim, tooltips, tooltipOpacity, surface, size, zoomT, rotation, trans, world, paths, pulses>>

\* an r1 that would add the vertical displacement as it adds the horizontal
r1_addsBoth(q0, v0, v1) ==
    <<RAdd(q0[1], RMul(Int2R(v1[1] - v0[1]), Rat(1, 2))),
      RAdd(q0[2], RMul(Int2R(v1[2] - v0[2]), Rat(1, 2)))>>

\* const r1 = [q0[0] + (v1[0] - v0[0]) * 0.5, q0[1] - (v1[1] - v0[1]) * 0.5]
r1(q0, v0, v1) ==
    <<RAdd(q0[1], RMul(Int2R(v1[1] - v0[1]), Rat(1, 2))),
      RSub(q0[2], RMul(Int2R(v1[2] - v0[2]), Rat(1, 2)))>>

\* function dragged(event)
dragged(v) ==
    /\ surface
    /\ drag.active
    /\ drag' = [drag EXCEPT !.v1 = v]
    /\ rotation' = rotate(r1(drag.q0, drag.v0, v))
    /\ paths' = [f \in DOMAIN paths |->
                    [paths[f] EXCEPT !.d = projected(mapProjection, rotation', f)]]
    /\ UNCHANGED <<appVars, hovered, stopped, loads, issued, pulseAnim, tooltips, tooltipOpacity, surface, size, zoomT, trans, world, pulses, log>>

\* mouseup: the gesture ends (no "end" listener is registered)
dragended ==
    /\ surface
    /\ drag.active
    /\ drag' = [drag EXCEPT !.active = FALSE]
    /\ UNCHANGED <<appVars, hovered, stopped, loads, issued, pulseAnim, tooltips, tooltipOpacity, surface, size, zoomT, rotation, trans, world, paths,
                   pulses, log>>

(***************************************************************************)
(* Hovering and clicking the country shapes                                *)
(***************************************************************************)
\* the shapes the pointer visits in the behaviours explored: one of a
\* country that is a key of the dataset, one of a country that is not
ShapeChoices == {"China", "France"}

\* the object literal of the click listener
DefaultRecord ==
    [threats |-> 0, incidents |-> 0, riskLevel |-> "low",
     lastUpdate |-> "No data", trend |-> "stable",
     activeThreats |-> <<>>, topTargets |-> <<>>,
     mitigationStatus |-> "N/A"]

\* a selection that would always carry a new default record
selection_alwaysDefault(countryName) == [name |-> countryName, data |-> "literal"]

\* { name: countryName, data: countryData[countryName] || {...} }: data is
\* the very object the dataset holds under that name ("record"), or a new
\* object made from the literal ("literal")
selection(countryName) ==
    [name |-> countryName,
     data |-> IF countryName \in DOMAIN countryData THEN "record" ELSE "literal"]

\* the fields read through selectedCountry.data
SelectedData ==
    IF selectedCountry.data = "record" THEN countryData[selectedCountry.name]
    ELSE DefaultRecord

\* a mouseover that would also select the country
mouseover_selects(c) ==
    /\ surface
    /\ world = "loaded"
    /\ hovered = NoShape
    /\ hovered' = c
    /\ paths' = [paths EXCEPT ![c].stroke = "#ef4444", ![c].strokeWidth = Int2R(2)]
    /\ tooltipOpacity' = Rat(9, 10)
    /\ selectedCountry' = selection(c)
    /\ UNCHANGED <<activeTab, darkMode, isMapFullscreen, mapProjection, countryData,
                   isLoading, refreshTimers, env, autoRefresh, intervals, ticks, sideVars,
                   stopped, loads, issued, pulseAnim, tooltips, surface, size, zoomT,
                   rotation, trans, drag, world, pulses, log>>

\* .on("mouseover", ...): the pointer enters the shape of c
mouseover(c) ==
    /\ surface
    /\ world = "loaded"
    /\ hovered = NoShape
    /\ hovered' = c
    /\ paths' = [paths EXCEPT ![c].stroke = "#ef4444", ![c].strokeWidth = Int2R(2)]
    /\ tooltipOpacity' = Rat(9, 10)
    /\ UNCHANGED <<appVars, stopped, loads, issued, pulseAnim, tooltips, surface, size, zoomT,
                   rotation, trans, drag, world, pulses, log>>

\* a mouseout that would leave the stroke of the shape as it is
mouseout_keepsStroke ==
    /\ surface
    /\ hovered # NoShape
    /\ hovered' = NoShape
    /\ tooltipOpacity' = Zero
    /\ UNCHANGED <<appVars, stopped, loads, issued, pulseAnim, tooltips, surface, size, zoomT,
                   rotation, trans, drag, world, paths, pulses, log>>

\* .on("mouseout", ...): the pointer leaves the shape it was on; the stroke
\* is set back and the tooltip starts its transition of 500 ms to opacity 0
mouseout ==
    /\ surface
    /\ hovered # NoShape
    /\ hovered' = NoShape
    /\ paths' = [paths EXCEPT ![hovered].stroke = neutralStroke,
                              ![hovered].strokeWidth = Rat(1, 2)]
    /\ tooltipOpacity' = Zero
    /\ UNCHANGED <<appVars, stopped, loads, issued, pulseAnim, tooltips, surface, size, zoomT,
                   rotation, trans, drag, world, pulses, log>>

\* .on("click", ...) of the shape the pointer is on; the mousedown of the
\* click reaches the svg first
clickCountry ==
    /\ hovered # NoShape
    /\ Cmd("clickCountry")
    /\ selectedCountry' = selection(hovered)
    /\ trans' = pointerDown
    /\ UNCHANGED <<activeTab, darkMode, isMapFullscreen, mapProjection, countryData,
                   isLoading, refreshTimers, env, autoRefresh, intervals, ticks, sideVars,
                   hovered, stopped, loads, issued, pulseAnim, tooltips, tooltipOpacity, surface, size, zoomT, rotation, drag, world,
                   paths, pulses>>

\* viewDetailedReport(country) after window.open: reportData is
\* countryData[country], and the template reads reportData.threats and the
\* other fields; on undefined this read throws a TypeError, and neither
\* document.write nor addNotification is reached
viewDetailedReport(country) ==
    IF country \in DOMAIN countryData THEN "written" ELSE "TypeError"

\* the View Detailed Report button of the Country Details panel, which is
\* rendered on the map tab outside fullscreen when a country is selected
clickViewDetailedReport ==
    /\ activeTab = "map"
    /\ ~isMapFullscreen
    /\ selectedCountry # null
    /\ AppEvent("viewDetailedReport")
    /\ report' = viewDetailedReport(selectedCountry.name)
    /\ UNCHANGED <<activeTab, darkMode, isMapFullscreen, mapProjection,
                   countryData, isLoading, refreshTimers, env, selectedCountry,
                   autoRefresh, intervals, ticks, settledOld, refreshInterval,
                   surfaceVars>>

(***************************************************************************)
(* The specification                                                       *)
(***************************************************************************)
Next ==
    \/ \E p \in ProjectionChoices : setMapProjection(p)
    \/ setDarkMode
    \/ setIsMapFullscreen
    \/ escapeKey
    \/ \E t \in TabChoices : setActiveTab(t)
    \/ \E byButton \in BOOLEAN : handleRefresh(byButton)
    \/ \E draw \in RefreshDraws : refreshTimeout(draw)
    \/ loadResolved
    \/ zoomIn
    \/ zoomOut
    \/ resetZoom
    \/ dblclick
    \/ fitToWindow
    \/ transitionStart
    \/ transitionFrame
    \/ transitionEnd
    \/ \E deltaY \in WheelDeltaYs, pt \in WheelPoints : wheeled(deltaY, pt)
    \/ \E delta \in PanDeltas : panned(delta)
    \/ \E v \in DragStartPoints : dragstarted(v)
    \/ \E v \in DragPoints : dragged(v)
    \/ dragended

Spec == Init /\ [][Next]_vars

(***************************************************************************)
(* Properties                                                              *)
(***************************************************************************)
Eight == Int2R(8)

\* C1: while the map is displayed its scale lies between minZoom of the
\* current projection (0.8 on the globe, 0.5 elsewhere) and 8
C1_ScaleWithinExtent ==
    surface => /\ RLe(minZoom(mapProjection), zoomT.k)
               /\ RLe(zoomT.k, Eight)

C3_RedrawKeepsView ==
    [][(countryData' # countryData \/ darkMode' # darkMode
          \/ isMapFullscreen' # isMapFullscreen) =>
          (zoomT' = zoomT /\ rotation' = rotation)]_vars

RECURSIVE RPow(_, _)
RPow(r, n) == IF n = 0 THEN One ELSE RMul(r, RPow(r, n - 1))

\* the commands so far are n >= 1 clicks on the one control
OnlyClicksOn(kind) == Len(log) > 0 /\ \A i \in 1..Len(log) : log[i] = kind

Ends(kinds) == transitionEnd /\ trans[1].kind \in kinds

\* C5 as stated: a reset, by the button or by a double click, leaves scale 1,
\* translate (0,0) and rotation (0,0,0)
C5_ResetIsIdentity ==
    [][Ends({"resetZoom", "dblclick"}) =>
          /\ zoomT' = [k |-> One, x |-> Zero, y |-> Zero]
          /\ rotation' = <<Zero, Zero, Zero>>]_vars

\* C5: a reset, by the button or by a double click, leaves scale 1 and
\* translate (0,0), and leaves the rotation of the globe as it was
C5_ResetKeepsRotation ==
    [][Ends({"resetZoom", "dblclick"}) =>
          /\ zoomT' = [k |-> One, x |-> Zero, y |-> Zero]
          /\ rotation' = rotation]_vars

\* on the globe, the reset issued after a drag has run to its end and the
\* globe is still turned
C5_Witness ==
    /\ log = <<"setMapProjection", "dragstarted", "resetZoom">>
    /\ mapProjection = "orthographic"
    /\ trans = <<>>
    /\ zoomT = [k |-> One, x |-> Zero, y |-> Zero]
    /\ rotation # <<Zero, Zero, Zero>>

\* the timer of d3 keeps firing: it starts a scheduled transition, and it
\* brings the running one to its last frame (the two are never enabled
\* together)
FairSpec == Spec /\ WF_vars(transitionStart \/ transitionEnd)

LastCmdIs(kind) == Len(log) > 0 /\ log[Len(log)] = kind

\* C6: after a double click on the map, unless another command follows,
\* the transition it started eventually is over with the map at scale 1 and
\* translate (0,0)
C6_DblclickEndsAtIdentity ==
    (surface /\ LastCmdIs("dblclick") /\ trans # <<>>)
        ~> \/ trans = <<>> /\ zoomT = [k |-> One, x |-> Zero, y |-> Zero]
           \/ ~LastCmdIs("dblclick")

\* the transition of a double click on a zoomed map is over
C6_Witness ==
    /\ log = <<"wheeled", "dblclick">>
    /\ surface
    /\ trans = <<>>
    /\ zoomT = [k |-> One, x |-> Zero, y |-> Zero]

\* C7: the transition of fit-to-window ends at scale 0.9 and translate
\* (0,0), whatever the transform before and whatever the projection
C7_FitEndsAtNineTenths ==
    [][Ends({"fitToWindow"}) =>
          zoomT' = [k |-> Rat(9, 10), x |-> Zero, y |-> Zero]]_vars

\* on the globe, fit-to-window after a wheel zoom has run to its end
C7_Witness ==
    /\ log = <<"setMapProjection", "wheeled", "fitToWindow">>
    /\ mapProjection = "orthographic"
    /\ trans = <<>>
    /\ zoomT = [k |-> Rat(9, 10), x |-> Zero, y |-> Zero]

\* half the displacement of the pointer since the start of the drag
HalfDx == Rat(drag.v1[1] - drag.v0[1], 2)

HalfDy == Rat(drag.v1[2] - drag.v0[2], 2)

C9_PulsesAreHighRiskWithGeometry ==
    world = "loaded" =>
        \A c \in DOMAIN countryData \cup FeatureNames \cup DOMAIN pulses :
            c \in DOMAIN pulses <=>
                /\ c \in DOMAIN countryData
                /\ countryData[c].riskLevel = "high"
                /\ c \in FeatureNames

\* the map is drawn after a refresh of the data: China and Russia pulse, the
\* high-risk "United States" has no feature of that name and does not, nor
\* does the medium-risk Germany
C9_Witness ==
    /\ world = "loaded"
    /\ countryData # InitialCountryData
    /\ countryData["United States"].riskLevel = "high"
    /\ countryData["Germany"].riskLevel = "medium"
    /\ DOMAIN pulses = {"China", "Russia"}

\* C10: once the map is drawn, each pulse marker is at the centroid of its
\* country projected under the current projection and the current rotation
C10_PulsesFollowRotation ==
    world = "loaded" =>
        \A c \in DOMAIN pulses :
            pulses[c] = [projection |-> mapProjection, rotate |-> rotation,
                         of |-> c]

(***************************************************************************)
(* The dashboard with the pointer on the country shapes                    *)
(***************************************************************************)
SelectNext ==
    \/ Next
    \/ \E c \in ShapeChoices : mouseover(c)
    \/ mouseout
    \/ clickCountry

SelectSpec == Init /\ [][SelectNext]_vars

(***************************************************************************)
(* Pointer drags on the map under each of the seven projections            *)
(***************************************************************************)
DragNext ==
    \/ \E p \in ProjectionKinds : setMapProjection(p)
    \/ loadResolved
    \/ \E delta \in PanDeltas : panned(delta)
    \/ \E v \in DragStartPoints : dragstarted(v)
    \/ \E v \in DragPoints : dragged(v)
    \/ dragended

DragSpec == Init /\ [][DragNext]_vars

(***************************************************************************)
(* Redraws while geometry loads are in flight                              *)
(***************************************************************************)
LoadNext ==
    \/ \E p \in ProjectionChoices : setMapProjection(p)
    \/ setDarkMode
    \/ setIsMapFullscreen
    \/ \E t \in TabChoices : setActiveTab(t)
    \/ \E byButton \in BOOLEAN : handleRefresh(byButton)
    \/ \E draw \in RefreshDraws : refreshTimeout(draw)
    \/ loadResolved
    \/ staleLoadResolved

LoadSpec == Init /\ [][LoadNext]_vars

(***************************************************************************)
(* The pulse markers animated by the timer of d3                           *)
(***************************************************************************)
PulseNext ==
    \/ \E p \in ProjectionChoices : setMapProjection(p)
    \/ setDarkMode
    \/ setIsMapFullscreen
    \/ \E t \in TabChoices : setActiveTab(t)
    \/ loadResolved
    \/ pulseCycleEnd

\* the timer of d3 goes on calling the transitions it has
PulseSpec == Init /\ [][PulseNext]_vars /\ WF_vars(pulseCycleEnd)

(***************************************************************************)
(* The Country Details panel                                               *)
(***************************************************************************)
ReportNext ==
    \/ setDarkMode
    \/ setIsMapFullscreen
    \/ loadResolved
    \/ \E c \in ShapeChoices : mouseover(c)
    \/ mouseout
    \/ clickCountry
    \/ clickViewDetailedReport

ReportSpec == Init /\ [][ReportNext]_vars

(***************************************************************************)
(* The size of the map in windows of many heights                          *)
(***************************************************************************)
\* window.innerHeight: no height, heights below, at and above the two ends
\* of the range in which innerHeight - 250 is taken as it is
ViewportInnerHeights == {0, 60, 100, 949, 950, 951, 1000, 1149, 1150, 1151, 2000}

ViewportInit ==
    \E e \in [clientWidth : ClientWidths, innerHeight : ViewportInnerHeights] :
        Mounted(e)

ViewportNext ==
    \/ setDarkMode
    \/ setIsMapFullscreen
    \/ escapeKey
    \/ \E t \in TabChoices : setActiveTab(t)
    \/ loadResolved

ViewportSpec == ViewportInit /\ [][ViewportNext]_vars

(***************************************************************************)
(* The dashboard refreshing its data, by hand and by the interval          *)
(***************************************************************************)
RefreshNext ==
    \/ setAutoRefresh
    \/ autoRefreshTick
    \/ \E byButton \in BOOLEAN : handleRefresh(byButton)
    \/ \E draw \in RefreshDraws : refreshTimeout(draw)
    \/ loadResolved

RefreshSpec == Init /\ [][RefreshNext]_vars

IntervalNext ==
    \/ RefreshNext
    \/ \E n \in RefreshIntervalChoices : setRefreshInterval(n)

IntervalSpec == Init /\ [][IntervalNext]_vars

(***************************************************************************)
(* The dashboard in browsers with a small or hidden window, and with       *)
(* geometry loads that fail                                                *)
(***************************************************************************)
\* a window of 950, of 100 and of 60 pixels of height, and a container that
\* has no width
FaultEnvs ==
    {[clientWidth |-> 800, innerHeight |-> 950],
     [clientWidth |-> 800, innerHeight |-> 100],
     [clientWidth |-> 800, innerHeight |-> 60],
     [clientWidth |-> 0, innerHeight |-> 950]}

FaultInit == \E e \in FaultEnvs : Mounted(e)

FaultNext == Next \/ loadRejected

FaultSpec == FaultInit /\ [][FaultNext]_vars

\* C11: when the map is redrawn or unmounted, the repeating animation of
\* every pulse marker of the surface that is removed is stopped, so that the
\* only loops left are those of the markers displayed
C11_RedrawStopsPulseLoops ==
    [][pulses # NoShapes /\ pulses' = NoShapes => stopped' = DOMAIN pulses]_vars

\* C12: the world geometry is requested at most once while the map view
\* stays mounted; redraws start no other load
C12_OneLoadPerMount == loads <= 1

\* C13: once the load of the geometry has failed, the map stays unavailable
\* for as long as the map view is mounted: no redraw starts it again
C13_FailureIsTerminal ==
    [][world = "failed" /\ activeTab' = "map" => world' = "failed"]_vars

\* C14: with a viewport whose width or height is not positive, nothing is
\* rendered: no svg is built and no geometry load is started
C14_InvalidViewportNotRendered ==
    (activeTab = "map" /\ (viewport(env, isMapFullscreen).width <= 0
                             \/ viewport(env, isMapFullscreen).height <= 0))
        => (~surface /\ world = "none" /\ loads = 0)

LastCommand == log[Len(log)]

C16_SelectionIsSnapshot ==
    [][(selectedCountry # null /\ selectedCountry' = selectedCountry) =>
          SelectedData' = SelectedData]_vars

\* C17: the selected country changes only by a click on a country shape
C17_OnlyClickChangesSelection ==
    [][selectedCountry' # selectedCountry =>
          (log' # log /\ LastCommand' = "clickCountry")]_vars

\* China was clicked and the user went to another tab, where no shape is
\* under the pointer: China is still selected
C17_Witness ==
    /\ log = <<"clickCountry", "setActiveTab">>
    /\ activeTab = "analytics"
    /\ hovered = NoShape
    /\ selectedCountry.name = "China"

\* C18: the threats of every record of the dataset are never below 0
C18_ThreatsNonNegative ==
    \A c \in DOMAIN countryData : countryData[c].threats >= 0

Red == "#ef4444"

Amber == "#f59e0b"

Green == "#10b981"

\* C19: the shapes drawn are those of the features, and the fill of each is
\* red, amber or green by the riskLevel of the record the dataset has under
\* the name of the feature, high, medium or low, and the neutral fill of
\* the theme (one for dark, one for light) when the dataset has no record
\* under that name; a key of the dataset that names no feature has no shape
C19_FillFollowsPriorityRule ==
    /\ DOMAIN paths \subseteq FeatureNames
    /\ \A f \in DOMAIN paths :
          IF f \in DOMAIN countryData
          THEN /\ countryData[f].riskLevel = "high" => paths[f].fill = Red
               /\ countryData[f].riskLevel = "medium" => paths[f].fill = Amber
               /\ countryData[f].riskLevel = "low" => paths[f].fill = Green
          ELSE paths[f].fill = (IF darkMode THEN "#374151" ELSE "#e5e7eb")

\* the map drawn in the light theme: China red, Germany amber, France, which
\* has no record, in the neutral fill of the light theme, and so the United
\* States of America, which the key 'United States' does not name
C19_Witness ==
    /\ world = "loaded"
    /\ ~darkMode
    /\ paths["China"].fill = Red
    /\ paths["Germany"].fill = Amber
    /\ paths["France"].fill = "#e5e7eb"
    /\ paths["United States of America"].fill = "#e5e7eb"
    /\ "United States" \in DOMAIN countryData

\* C20: under a projection other than the orthographic one no drag gesture
\* rotates: the rotation of the projection is (0,0,0) whatever the pointer
\* has done, and a pointer drag there pans the map
C20_RotationOnlyOnGlobe ==
    mapProjection # "orthographic" =>
        /\ rotation = <<Zero, Zero, Zero>>
        /\ ~drag.active

\* under the Robinson projection the pointer was dragged 1500 to the right:
\* the map has moved and the rotation is as it was
C20_Witness ==
    /\ mapProjection = "robinson"
    /\ log = <<"setMapProjection", "panned">>
    /\ zoomT.x = Int2R(1500)
    /\ rotation = NoRotation

\* C21: the displayed surface has no shape and no marker until its own load
\* has resolved, it has then one shape per feature, and a load resolving
\* after its surface was removed changes nothing of the surface displayed
C21_ShapesOnlyFromOwnLoad ==
    /\ [](world # "loaded" => (paths = NoShapes /\ pulses = NoShapes))
    /\ [](world = "loaded" => DOMAIN paths = FeatureNames)
    /\ [][settledOld' # settledOld =>
             (paths' = paths /\ pulses' = pulses /\ world' = world)]_vars

\* the theme was toggled, the load of the removed surface has resolved and
\* the load of the new surface has not: the new surface is still empty
C21_Witness ==
    /\ log = <<"setDarkMode">>
    /\ issued = 2 /\ settledOld = 1
    /\ world = "pending"
    /\ paths = NoShapes /\ pulses = NoShapes

\* C22: while markers are displayed their animation is a cycle from r 5 and
\* opacity 0.8 to r 20 and opacity 0 in 2000 ms, and after every cycle
\* another one begins, for as long as these markers are displayed; without
\* markers no animation runs
C22_PulsesLoopForever ==
    /\ [](pulses # NoShapes =>
             /\ pulseAnim.running
             /\ pulseAnim.r = <<5, 20>>
             /\ pulseAnim.opacity = <<Rat(4, 5), Zero>>
             /\ pulseAnim.duration = 2000)
    /\ [](pulses = NoShapes => ~pulseAnim.running)
    /\ \A b \in {0, 1} :
          (pulses # NoShapes /\ pulseAnim.beat = b) ~>
              (pulses = NoShapes \/ pulseAnim.beat = 1 - b)

\* the markers of China and Russia are in their second cycle
C22_Witness ==
    /\ DOMAIN pulses = {"China", "Russia"}
    /\ pulseAnim.running
    /\ pulseAnim.beat = 1

\* the shapes that carry the highlight stroke
Highlighted ==
    {f \in DOMAIN paths :
        paths[f].stroke = "#ef4444" /\ paths[f].strokeWidth = Int2R(2)}

\* C23: at most one shape carries the highlight stroke, the shape the
\* pointer is on; every other shape, and so the shape the pointer has left,
\* has the neutral stroke of the theme at width 0.5, and with no shape
\* under the pointer the tooltip is hidden or fading to hidden
C23_OneShapeHighlighted ==
    /\ Cardinality(Highlighted) <= 1
    /\ Highlighted \subseteq {hovered}
    /\ \A f \in DOMAIN paths \ {hovered} :
          /\ paths[f].stroke = (IF darkMode THEN "#1f2937" ELSE "#d1d5db")
          /\ paths[f].strokeWidth = Rat(1, 2)
    /\ hovered = NoShape => tooltipOpacity = Zero

\* in the light theme the pointer has been on China, where it clicked, and
\* is now on France
C23_Witness ==
    /\ ~darkMode
    /\ log = <<"setDarkMode", "clickCountry">>
    /\ selectedCountry.name = "China"
    /\ hovered = "France"
    /\ Highlighted = {"France"}
    /\ paths["China"].stroke = "#d1d5db"
    /\ tooltipOpacity = Rat(9, 10)

\* C24: isLoading is true for as long as a refresh is pending
C24_LoadingWhilePending == refreshTimers > 0 => isLoading

\* C25: at most one interval of the auto-refresh is scheduled, and none
\* while autoRefresh is off
C25_OneIntervalTimer ==
    /\ intervals <= 1
    /\ ~autoRefresh => intervals = 0

\* auto-refresh was switched on, the interval field was changed and a
\* refresh started by the interval has replaced the data: one interval is
\* scheduled
C25_Witness ==
    /\ log = <<"setAutoRefresh", "setRefreshInterval">>
    /\ refreshInterval = 30
    /\ ticks >= 1
    /\ countryData # InitialCountryData
    /\ autoRefresh /\ intervals = 1

\* C26: View Detailed Report never ends in an error
C26_ReportWithoutError == report # "TypeError"

\* C27: the map is fullscreen only while the active tab is the map, and
\* Escape in fullscreen ends the fullscreen and leaves the tab as it is
C27_FullscreenOnlyOnMapTab ==
    /\ [](isMapFullscreen => activeTab = "map")
    /\ [][(log' # log /\ LastCommand' = "escapeKey") =>
             (~isMapFullscreen' /\ activeTab' = activeTab)]_vars

\* a record without the two fields a refresh writes
Rest(rec) == [rec EXCEPT !.threats = 0, !.lastUpdate = ""]

\* C28: a refresh leaves the keys of the dataset and, in every record, all
\* fields but threats and lastUpdate as they were; so the drawn map always
\* has the pulse markers and the risk fills of the initial dataset
C28_RefreshKeepsOtherFields ==
    /\ [][countryData' # countryData =>
             /\ DOMAIN countryData' = DOMAIN countryData
             /\ \A c \in DOMAIN countryData :
                   Rest(countryData'[c]) = Rest(countryData[c])]_vars
    /\ [](world = "loaded" =>
             /\ DOMAIN pulses = {"China", "Russia"}
             /\ \A f \in DOMAIN paths \cap DOMAIN InitialCountryData :
                   paths[f].fill =
                       IF InitialCountryData[f].riskLevel = "high" THEN "#ef4444"
                       ELSE "#f59e0b")

\* two refreshes have completed and the map is drawn again: China has
\* fewer threats than at the start, is still high risk and still has its
\* marker
C28_Witness ==
    /\ log = <<"handleRefresh", "handleRefresh">>
    /\ refreshTimers = 0
    /\ world = "loaded"
    /\ countryData["China"].threats < 38
    /\ countryData["China"].lastUpdate = "Just now"
    /\ countryData["China"].riskLevel = "high"
    /\ "China" \in DOMAIN pulses

\* C29: the document has at most one tooltip element, and none while the
\* active tab is not the map
C29_AtMostOneTooltip ==
    /\ tooltips <= 1
    /\ activeTab # "map" => tooltips = 0

\* the theme was toggled, the user left the map tab and came back: one
\* tooltip
C29_Witness ==
    /\ log = <<"setDarkMode", "setActiveTab", "setActiveTab">>
    /\ activeTab = "map"
    /\ tooltips = 1

\* C30: outside fullscreen the height of the map is innerHeight - 250 kept
\* within 700 and 900, so never 0 or less; in fullscreen it is innerHeight
\* - 100, whatever that is
C30_ViewportHeight ==
    surface =>
        IF isMapFullscreen
        THEN size.height = env.innerHeight - 100
        ELSE /\ size.height >= 700 /\ size.height <= 900
             /\ size.height =
                  CASE env.innerHeight - 250 < 700 -> 700
                    [] env.innerHeight - 250 > 900 -> 900
                    [] OTHER -> env.innerHeight - 250

\* a window of height 1000 gives the map 750; the map has been fullscreen,
\* where it had 900, and is back at 750
C30_Witness ==
    /\ log = <<"setIsMapFullscreen", "escapeKey">>
    /\ env.innerHeight = 1000
    /\ surface /\ ~isMapFullscreen
    /\ size.height = 750

====
